---- MODULE Spec2Model ----
(***************************************************************************)
(* A state-machine model of calibre-plugin/overdrive/client.py:            *)
(*   - OverDriveClient.send_request: request construction, the bounded     *)
(*     attempt loop and the decoding of the response;                      *)
(*   - the endpoint helpers that build a query and call send_request;      *)
(*   - LibraryMediaSearchParams.is_empty / to_dict;                        *)
(*   - OverDriveClient.sort_availabilities.                                *)
(*                                                                         *)
(* Python values are modelled as follows.                                  *)
(*   dict        a function from keys (strings) to values                  *)
(*   bytes       a sequence of integers 0..255                             *)
(*   str (body,  a sequence of one-character strings                       *)
(*    search)                                                              *)
(*   None / str / dict arguments   records tagged by a field "t"           *)
(* The remote server and the transport are the environment: every attempt  *)
(* receives a nondeterministically chosen response, HTTP error or fault.   *)
(* The transport is assumed to deliver a response body completely once the *)
(* status line and headers of that response have been received.            *)
(***************************************************************************)
EXTENDS Integers, Sequences, FiniteSets, TLC

VARIABLES
    client,         \* the fields of the OverDriveClient instance
    callerHeaders,  \* a header mapping object owned by the caller
    calls,          \* number of public operations invoked so far
    pc,             \* "idle" | "loop" | "done": position inside send_request
    op,             \* the public operation that is running
    args,           \* the arguments send_request was called with
    req,            \* the urllib Request built by send_request
    attempt,        \* the loop variable of the attempt loop
    opens,          \* number of opener.open() calls made by this call
    retried,        \* the retried ("Retrying due to ...") failures, in order
    last,           \* what opener.open returned or raised in the latest attempt
    outcome,        \* what the call returned or raised
    search,         \* a LibraryMediaSearchParams object and what was computed
    avail           \* two availability records and the comparator's results

vars == <<client, callerHeaders, calls, pc, op, args, req, attempt, opens,
          retried, last, outcome, search, avail>>

sendVars == <<client, callerHeaders, calls, pc, op, args, req, attempt,
              opens, retried, last, outcome>>

(***************************************************************************)
(* Bounds of the model.                                                    *)
(***************************************************************************)
MaxRetries == 2
MaxCalls == 2
MaxBody == 2
MaxStrLen == 2

(***************************************************************************)
(* Module constants of client.py.                                          *)
(***************************************************************************)
USER_AGENT == "Mozilla/5.0"
SITE_URL == "https://libbyapp.com"
THUNDER_API_URL == "https://thunder.api.overdrive.com/v2/"
CLIENT_ID == "dewey"
MAX_PER_PAGE == 24

(***************************************************************************)
(* Python values.                                                          *)
(***************************************************************************)
None == [t |-> "None"]
PyStr(s) == [t |-> "str", s |-> s]
PyInt(n) == [t |-> "int", n |-> n]
PyList(xs) == [t |-> "list", xs |-> xs]
PyDict(d) == [t |-> "dict", d |-> d]
PyChars(s) == [t |-> "chars", s |-> s]
\* sep.join(items)
Join(sep, items) == [t |-> "joined", sep |-> sep, items |-> items]
EmptyDict == [k \in {} |-> None]

\* dict.update(other): the keys of other win.
Update(d, other) == other @@ d

\* d[k] = v
SetItem(d, k, v) == (k :> v) @@ d

\* bool(x) for the argument values above.
Truthy(x) ==
    CASE x.t = "None" -> FALSE
      [] x.t = "str"  -> x.s # ""
      [] x.t = "int"  -> x.n # 0
      [] x.t = "list" -> x.xs # <<>>
      [] x.t = "chars" -> x.s # <<>>
      [] x.t = "joined" -> x.items # <<>>
      [] x.t = "dict" -> DOMAIN x.d # {}

\* str.strip()
RECURSIVE LStrip(_)
LStrip(s) == IF s # <<>> /\ Head(s) = " " THEN LStrip(Tail(s)) ELSE s

RECURSIVE RStrip(_)
RStrip(s) ==
    IF s # <<>> /\ s[Len(s)] = " " THEN RStrip(SubSeq(s, 1, Len(s) - 1)) ELSE s

Strip(s) == RStrip(LStrip(s))

\* str.upper() on the method names used.
Upper(m) ==
    CASE m = "get" -> "GET"
      [] m = "put" -> "PUT"
      [] m = "post" -> "POST"
      [] OTHER -> m

\* str(v) of a scalar query value.
ToText(v) ==
    CASE v.t = "str" -> v.s
      [] v.t = "int" -> (CASE v.n = 1 -> "1" [] v.n = 3 -> "3"
                           [] v.n = 20 -> "20" [] v.n = 24 -> "24"
                           [] OTHER -> "0")
      [] v.t = "chars" -> v.s
      [] v.t = "joined" -> v.items
      [] OTHER -> "None"

\* urllib.parse.urlencode(d, doseq=True): the key=value pairs of the query
\* string; a list value yields one pair per element.
urlencode(d) ==
    UNION { IF d[k].t = "list"
              THEN { <<k, ToText(d[k].xs[i])>> : i \in 1..Len(d[k].xs) }
              ELSE { <<k, ToText(d[k])>> } : k \in DOMAIN d }

\* json.dumps(params, separators=(",", ":")).encode("ascii")
JsonDumps(d) == [fmt |-> "json", compact |-> TRUE, pairs |-> urlencode(d)]

\* urlencode(params).encode("ascii")
FormEncode(d) == [fmt |-> "form", pairs |-> urlencode(d)]

\* "".encode("ascii")
EmptyBytes == [fmt |-> "raw-empty"]

\* urllib.request.Request stores each header under key.capitalize().
Capitalize(k) ==
    CASE k = "Content-Type"    -> "Content-type"
      [] k = "User-Agent"      -> "User-agent"
      [] k = "Accept-Encoding" -> "Accept-encoding"
      [] k = "Cache-Control"   -> "Cache-control"
      [] OTHER -> k

RequestHeaders(h) ==
    [ck \in { Capitalize(k) : k \in DOMAIN h } |->
        h[CHOOSE k \in DOMAIN h : Capitalize(k) = ck]]

(***************************************************************************)
(* OverDriveClient.default_headers / default_query                         *)
(***************************************************************************)
default_headers(self) ==
    ("User-Agent" :> self.user_agent) @@
    ("Referer" :> "https://libbyapp.com/") @@
    ("Origin" :> SITE_URL) @@
    ("Accept-Encoding" :> "gzip") @@
    ("Cache-Control" :> "no-cache") @@
    ("Pragma" :> "no-cache")

\* Faulty variant: the client identifier is left out of the default query.
default_query_NoClientId(paging) ==
    IF paging
      THEN ("page" :> PyInt(1)) @@ ("perPage" :> PyInt(MAX_PER_PAGE))
      ELSE EmptyDict

default_query(paging) ==
    LET query == ("x-client-id" :> PyStr(CLIENT_ID))
    IN  IF paging
          THEN Update(query, ("page" :> PyInt(1)) @@
                             ("perPage" :> PyInt(MAX_PER_PAGE)))
          ELSE query

(***************************************************************************)
(* LibraryMediaSearchParams, lines 44-99.  The four text fields are        *)
(* sequences of characters; the other strings are atoms.                   *)
(***************************************************************************)
Max(a, b) == IF a >= b THEN a ELSE b

\* The dataclass defaults, lines 46-58.
DefaultSearchParams ==
    [query |-> <<>>, title |-> <<>>, creator |-> <<>>, identifier |-> <<>>,
     formats |-> <<>>, per_page |-> 20, page |-> 1, sort_by |-> "relevance",
     show_only_available |-> FALSE, show_only_prelease |-> FALSE,
     media_type |-> "", subject_id |-> "", title_ids |-> <<>>]

TextFields == {"query", "title", "creator", "identifier"}

is_empty(self) ==
    ~ \/ Strip(self.query) # <<>>
      \/ Strip(self.title) # <<>>
      \/ Strip(self.creator) # <<>>
      \/ Strip(self.identifier) # <<>>
      \/ self.show_only_available
      \/ self.show_only_prelease
      \/ self.title_ids # <<>>
      \/ self.media_type # ""
      \/ self.subject_id # ""

\* str(value).lower()
convert_bool(value) == IF value THEN "true" ELSE "false"

\* ",".join([str(v).strip() for v in values])
convert_to_csv(values) == [t |-> "joined", sep |-> ",", items |-> values]

\* Line 91: `if v:` for a text field.
TextFieldIsEmitted(v) == v # <<>>

\* Lines 89-92: the text fields that are put into the result.
TextFieldItems(self) ==
    [a \in { f \in TextFields : TextFieldIsEmitted(self[f]) } |->
        PyChars(Strip(self[a]))]

to_dict(self) ==
    LET r0 == ("page" :> PyInt(Max(1, self.page))) @@
              ("perPage" :> PyInt(Max(1, self.per_page)))
        r1 == IF self.sort_by # ""
                THEN SetItem(r0, "sortBy", PyStr(self.sort_by)) ELSE r0
        r2 == IF self.formats # <<>>
                THEN SetItem(r1, "format",
                             convert_to_csv(self.formats))
                ELSE r1
        r3 == IF self.show_only_available
                THEN SetItem(r2, "showOnlyAvailable",
                             PyStr(convert_bool(self.show_only_available)))
              ELSE IF self.show_only_prelease
                THEN SetItem(r2, "showOnlyPrerelease",
                             PyStr(convert_bool(self.show_only_prelease)))
              ELSE r2
        r4 == Update(r3, TextFieldItems(self))
        r5 == IF self.title_ids # <<>>
                THEN SetItem(r4, "titleIds",
                             Join(",", self.title_ids))
                ELSE r4
        r6 == IF self.media_type # ""
                THEN SetItem(r5, "mediaTypes", PyStr(self.media_type)) ELSE r5
    IN  IF self.subject_id # ""
          THEN SetItem(r6, "subject", PyStr(self.subject_id)) ELSE r6

(***************************************************************************)
(* send_request, lines 199-232: the request is built.  hdrObj is the       *)
(* caller's header mapping: when the headers argument refers to it, the    *)
(* code writes Content-Type into that very object.                         *)
(***************************************************************************)
\* Line 208-213: the HTTP method.
InferMethod(method, params) ==
    IF ~Truthy(method)
      THEN (IF params = None THEN "GET" ELSE "POST")
      ELSE Upper(method.s)

\* Line 216: a body payload is encoded for a truthy params or for "".
HasPayload(params) == Truthy(params) \/ params = PyStr("")

ContentTypeFor(is_form) ==
    IF is_form THEN "application/x-www-form-urlencoded"
               ELSE "application/json; charset=UTF-8"

EncodeData(params, is_form) ==
    IF ~HasPayload(params) THEN None
    ELSE IF params = PyStr("") THEN [t |-> "bytes", b |-> EmptyBytes]
    ELSE IF is_form THEN [t |-> "bytes", b |-> FormEncode(params.d)]
    ELSE [t |-> "bytes", b |-> JsonDumps(params.d)]

\* The mapping the name `headers` is bound to after line 203, as mutated by
\* lines 217-220.
HeadersAfterBuild(self, a, hdrObj) ==
    LET h0 == IF a.headers = "None" THEN default_headers(self) ELSE hdrObj
    IN  IF HasPayload(a.params)
          THEN SetItem(h0, "Content-Type", ContentTypeFor(a.is_form))
          ELSE h0

\* The caller's mapping after the call: the same object as `headers` when it
\* was passed in.
CallerHeadersAfterBuild(self, a, hdrObj) ==
    IF a.headers = "None" THEN hdrObj ELSE HeadersAfterBuild(self, a, hdrObj)

\* Lines 199-207: the URL.
EndpointUrl(self, a) ==
    LET query == IF ~Truthy(a.query) THEN EmptyDict ELSE a.query.d
    IN  [base |-> self.api_base,
         endpoint |-> a.endpoint,
         qs |-> IF DOMAIN query # {} THEN urlencode(query) ELSE {}]

BuildRequest(self, a, hdrObj) ==
    [url |-> EndpointUrl(self, a),
     data |-> EncodeData(a.params, a.is_form),
     headers |-> RequestHeaders(HeadersAfterBuild(self, a, hdrObj)),
     method |-> InferMethod(a.method, a.params)]

(***************************************************************************)
(* Response bodies.  A body on the wire is a sequence of bytes; a gzip     *)
(* member starts with the magic bytes 31, 139 and is followed here by the  *)
(* bytes it inflates to.                                                   *)
(***************************************************************************)
RECURSIVE SeqsUpTo(_, _)
SeqsUpTo(S, n) ==
    IF n = 0 THEN { <<>> }
    ELSE LET shorter == SeqsUpTo(S, n - 1)
         IN  shorter \cup { Append(q, x) : q \in shorter, x \in S }

IsGzip(wire) == Len(wire) >= 2 /\ wire[1] = 31 /\ wire[2] = 139

Gzip(bytes) == <<31, 139>> \o bytes

\* gzip.GzipFile(fileobj=buf).read()
GzipRead(wire) ==
    IF IsGzip(wire)
      THEN [exc |-> "", b |-> SubSeq(wire, 3, Len(wire))]
      ELSE [exc |-> "BadGzipFile", b |-> <<>>]

\* chr() of the ASCII bytes used.
Chr(byte) ==
    CASE byte = 32  -> " "
      [] byte = 49  -> "1"
      [] byte = 123 -> "{"
      [] byte = 125 -> "}"
      [] OTHER      -> "?"

\* bytes.decode("utf8"): a byte >= 128 that starts no valid sequence fails.
Utf8Decode(bytes) ==
    IF \E i \in 1..Len(bytes) : bytes[i] >= 128
      THEN [exc |-> "UnicodeDecodeError", s |-> <<>>]
      ELSE [exc |-> "", s |-> [i \in 1..Len(bytes) |-> Chr(bytes[i])]]

RECURSIVE DigitsValue(_)
DigitsValue(s) ==
    IF s = <<>> THEN 0 ELSE 10 * DigitsValue(SubSeq(s, 1, Len(s) - 1)) + 1

\* json.loads(text) over the characters used: an empty object (with optional
\* inner blanks) or a number made of the digit 1; anything else is malformed.
JsonLoads(text) ==
    LET core == Strip(text)
        n == Len(core)
    IN  IF n >= 2 /\ core[1] = "{" /\ core[n] = "}"
           /\ \A i \in 2..(n - 1) : core[i] = " "
          THEN [exc |-> "", j |-> [t |-> "object", members |-> {}]]
        ELSE IF n >= 1 /\ \A i \in 1..n : core[i] = "1"
          THEN [exc |-> "", j |-> [t |-> "number", n |-> DigitsValue(core)]]
        ELSE [exc |-> "JSONDecodeError", j |-> None]

\* str.startswith on a header value held as a sequence of segments.
StartsWith(value, prefix) == Len(value) >= 1 /\ value[1] = prefix

Returned(v) == [kind |-> "return", value |-> v]
Raised(e) == [kind |-> "raise", exc |-> e]
Pending == [kind |-> "pending"]

(***************************************************************************)
(* _read_response, lines 163-173                                           *)
(***************************************************************************)
ReadBytes(response) ==
    IF response.cenc = "gzip"
      THEN GzipRead(response.wire)
      ELSE [exc |-> "", b |-> response.wire]

\* The result is an outcome: the value _read_response returns, or the
\* exception it raises.
ReadResponse(response, decode) ==
    LET res == ReadBytes(response)
    IN  IF res.exc # "" THEN Raised(res.exc)
        ELSE IF ~decode THEN Returned([t |-> "bytes", b |-> res.b])
        ELSE LET decoded_res == Utf8Decode(res.b)
             IN  IF decoded_res.exc # "" THEN Raised(decoded_res.exc)
                 ELSE Returned([t |-> "str", s |-> decoded_res.s])

(***************************************************************************)
(* send_request, lines 288-299: what the call returns or raises once       *)
(* opener.open has returned a response.                                    *)
(***************************************************************************)
IsJsonContentType(ctype) == StartsWith(ctype.v, "application/json")

DecodeContent(response, response_content) ==
    IF Strip(response_content) = <<>>
      THEN Returned([t |-> "dict", d |-> EmptyDict])
    ELSE IF ~response.ctype.present
      \* response.headers["content-type"] is None: None.startswith
      THEN Raised("AttributeError")
    ELSE IF IsJsonContentType(response.ctype)
      THEN LET res_obj == JsonLoads(response_content)
           IN  IF res_obj.exc # "" THEN Raised(res_obj.exc)
               ELSE Returned([t |-> "json", j |-> res_obj.j])
    ELSE Returned([t |-> "str", s |-> response_content])

Finish(response, decode_response) ==
    IF ~decode_response THEN ReadResponse(response, FALSE)
    ELSE LET r == ReadResponse(response, TRUE)
         IN  IF r.kind = "raise" THEN r
             ELSE DecodeContent(response, r.value.s)

(***************************************************************************)
(* send_request, lines 234-299: the attempt loop.                          *)
(***************************************************************************)
\* Faulty variant: every HTTPError is retried while attempts remain.
RetryHTTPErrorAnyStatus(att, max_retries, code) == att < max_retries

\* Line 250-252: an HTTPError is retried.
RetryHTTPError(att, max_retries, code) == att < max_retries /\ code >= 500

\* Line 269: a connection-level fault is retried.
RetryConnectionError(att, max_retries) == att < max_retries

\* range(0, self.max_retries + 1) is empty.
RangeIsEmpty(max_retries) == max_retries + 1 <= 0

\* Line 277-281: ClientConnectionError("{} {}".format(class name, str(e)))
ClientConnectionError(fault) ==
    [kind |-> "raise", exc |-> "ClientConnectionError",
     msg |-> <<fault.cls, " ", fault.msg>>]

\* Line 259: the HTTPError is re-raised as it is.
HTTPStatusError(e) == [kind |-> "raise", exc |-> "HTTPError", code |-> e.code]

NoRequest == [t |-> "None"]
NoOperation == [name |-> "", specific |-> EmptyDict]
NoEvent == [ev |-> "none"]
Event(ev, obj) == [ev |-> ev, obj |-> obj]

\* send_request(a) is entered by the public operation `name`, whose
\* call-specific query parameters are `specific`: the request is built
\* (lines 199-232) and the loop is entered; with an empty range the function
\* falls off its end and returns None.  The caller, which is single-threaded,
\* enters it only between calls (pc = "idle", stated by each operation).
SendRequest(name, specific, a) ==
    /\ calls < MaxCalls
    /\ calls' = calls + 1
    /\ op' = [name |-> name, specific |-> specific]
    /\ args' = a
    /\ req' = BuildRequest(client, a, callerHeaders)
    /\ callerHeaders' = CallerHeadersAfterBuild(client, a, callerHeaders)
    /\ attempt' = 0
    /\ opens' = 0
    /\ retried' = <<>>
    /\ last' = NoEvent
    /\ IF RangeIsEmpty(client.max_retries)
         THEN pc' = "done" /\ outcome' = Returned(None)
         ELSE pc' = "loop" /\ outcome' = Pending
    /\ UNCHANGED <<client, search, avail>>

\* Faulty variant: a response whose decoding fails is retried while attempts remain.
AttemptSuccessRetryingDecode(Responses) ==
    /\ pc = "loop"
    /\ \E response \in Responses :
         LET r == Finish(response, args.decode_response)
         IN  /\ opens' = opens + 1
             /\ last' = Event("response", response)
             /\ IF r.kind = "raise" /\ attempt < client.max_retries
                  THEN /\ retried' = Append(retried, r)
                       /\ attempt' = attempt + 1
                       /\ UNCHANGED <<pc, outcome>>
                  ELSE /\ outcome' = r
                       /\ pc' = "done"
                       /\ UNCHANGED <<retried, attempt>>
    /\ UNCHANGED <<client, callerHeaders, calls, op, args, req, search,
                   avail>>

\* opener.open returns a response (lines 283-299).
AttemptSuccess(Responses) ==
    /\ pc = "loop"
    /\ \E response \in Responses :
         /\ opens' = opens + 1
         /\ last' = Event("response", response)
         /\ outcome' = Finish(response, args.decode_response)
         /\ pc' = "done"
    /\ UNCHANGED <<client, callerHeaders, calls, op, args, req, attempt,
                   retried, search, avail>>

\* opener.open raises HTTPError (lines 244-259).  In the retry branch the
\* body of the error response is read and decoded for the debug log before
\* the loop continues; an exception raised there leaves the handler.
AttemptHTTPError(Errors) ==
    /\ pc = "loop"
    /\ \E e \in Errors :
         /\ opens' = opens + 1
         /\ last' = Event("HTTPError", e)
         /\ IF RetryHTTPError(attempt, client.max_retries, e.code)
              THEN LET body == ReadResponse(e, TRUE)
                   IN  /\ retried' = Append(retried, HTTPStatusError(e))
                       /\ IF body.kind = "raise"
                            THEN /\ pc' = "done"
                                 /\ outcome' = body
                                 /\ attempt' = attempt
                            ELSE /\ pc' = "loop"
                                 /\ outcome' = outcome
                                 /\ attempt' = attempt + 1
              ELSE /\ pc' = "done"
                   /\ outcome' = HTTPStatusError(e)
                   /\ UNCHANGED <<retried, attempt>>
    /\ UNCHANGED <<client, callerHeaders, calls, op, args, req, search,
                   avail>>

\* opener.open raises a connection-level fault (lines 261-281).
AttemptFault(Faults) ==
    /\ pc = "loop"
    /\ \E fault \in Faults :
         /\ opens' = opens + 1
         /\ last' = Event("fault", fault)
         /\ IF RetryConnectionError(attempt, client.max_retries)
              THEN /\ retried' = Append(retried, Raised(fault.cls))
                   /\ attempt' = attempt + 1
                   /\ UNCHANGED <<pc, outcome>>
              ELSE /\ pc' = "done"
                   /\ outcome' = ClientConnectionError(fault)
                   /\ UNCHANGED <<retried, attempt>>
    /\ UNCHANGED <<client, callerHeaders, calls, op, args, req, search,
                   avail>>

\* The caller has received the result or the exception and goes on.
CallerResumes ==
    /\ pc = "done"
    /\ pc' = "idle"
    /\ op' = NoOperation
    /\ args' = None
    /\ req' = NoRequest
    /\ attempt' = 0
    /\ opens' = 0
    /\ retried' = <<>>
    /\ last' = NoEvent
    /\ outcome' = Pending
    /\ UNCHANGED <<client, callerHeaders, calls, search, avail>>

(***************************************************************************)
(* The environment: what opener.open can return or raise.                  *)
(***************************************************************************)
CtJson == [present |-> TRUE, v |-> <<"application/json">>]
CtJsonCharset ==
    [present |-> TRUE, v |-> <<"application/json", "; charset=utf-8">>]
CtHtml == [present |-> TRUE, v |-> <<"text/html">>]
CtAbsent == [present |-> FALSE, v |-> <<>>]

\* Bytes of " ", "1", "{", "}" and a byte that is not valid UTF-8.
BodyBytes == {32, 49, 123, 125, 255}

PlainBodies == SeqsUpTo(BodyBytes, MaxBody)
WireBodies == PlainBodies \cup { Gzip(b) : b \in PlainBodies }

\* Responses that differ in body, content type and content encoding.
AllResponses ==
    [code : {200}, ctype : {CtJson, CtJsonCharset, CtHtml, CtAbsent},
     cenc : {"identity", "gzip"}, wire : WireBodies]

\* A few responses for the specifications that vary something else.
SomeResponses ==
    [code : {200}, ctype : {CtJson, CtHtml}, cenc : {"identity"},
     wire : SeqsUpTo({123, 125}, MaxBody)]

OneResponse ==
    { [code |-> 200, ctype |-> CtJson, cenc |-> "identity",
       wire |-> <<123, 125>>] }

AllErrors ==
    [code : {400, 404, 500, 503}, ctype : {CtHtml}, cenc : {"identity"},
     wire : {<<>>, <<255>>}]

SomeErrors ==
    [code : {404, 503}, ctype : {CtHtml}, cenc : {"identity"},
     wire : {<<>>}]

AllFaults ==
    [cls : {"SSLError", "timeout", "ConnectionResetError", "URLError",
            "RemoteDisconnected"},
     msg : {"connection reset by peer"}]

SomeFaults == { [cls |-> "timeout", msg |-> "timed out"] }

(***************************************************************************)
(* The callers' arguments.                                                 *)
(***************************************************************************)
DefaultArgs(endpoint, query) ==
    [endpoint |-> endpoint, query |-> query, params |-> None,
     method |-> None, headers |-> "None", is_form |-> TRUE,
     decode_response |-> TRUE]

\* send_request called directly, varying decode_response only.
PlainArgs ==
    { [DefaultArgs(<<"media/", "1">>, PyDict(default_query(FALSE)))
         EXCEPT !.decode_response = d] : d \in BOOLEAN }

\* send_request called directly, varying how the request is built.
BuildArgs ==
    [endpoint : {<<"media/", "1">>},
     query : {None, PyDict(EmptyDict), PyDict("q" :> PyStr("x")),
              PyDict(default_query(FALSE))},
     params : {None, PyStr(""), PyDict(EmptyDict),
               PyDict("ids" :> PyStr("1"))},
     method : {None, PyStr("put")},
     headers : {"None", "caller"},
     is_form : BOOLEAN,
     decode_response : {TRUE}]

\* __init__, lines 109-127.
NewClient(max_retries) ==
    [max_retries |-> max_retries, timeout |-> 30, user_agent |-> USER_AGENT,
     api_base |-> THUNDER_API_URL, opener |-> "HTTPSHandler(CERT_NONE)"]

NoSearch == [t |-> "None"]
NoAvail == [t |-> "None"]

\* A client constructed with one of the given max_retries values, and a
\* header mapping of the caller's that holds no Content-Type.
InitClient(RetryValues) ==
    /\ client \in { NewClient(n) : n \in RetryValues }
    /\ callerHeaders = ("Accept" :> "*/*")  \* InitialCallerHeaders
    /\ calls = 0
    /\ pc = "idle"
    /\ op = NoOperation
    /\ args = None
    /\ req = NoRequest
    /\ attempt = 0
    /\ opens = 0
    /\ retried = <<>>
    /\ last = NoEvent
    /\ outcome = Pending

(***************************************************************************)
(* Spec: the attempt loop under every mix of per-attempt outcomes, for     *)
(* every max_retries the constructor accepts up to MaxRetries.             *)
(***************************************************************************)
\* The caller invokes send_request directly.
Call(Arguments) ==
    /\ pc = "idle"
    /\ \E a \in Arguments : SendRequest("send_request", EmptyDict, a)

Init ==
    /\ InitClient(-1..MaxRetries)
    /\ search = NoSearch
    /\ avail = NoAvail

Next ==
    \/ Call(PlainArgs)
    \/ AttemptSuccess(SomeResponses)
    \/ AttemptHTTPError(AllErrors)
    \/ AttemptFault(AllFaults)
    \/ CallerResumes

Spec == Init /\ [][Next]_vars

(***************************************************************************)
(* Properties of the attempt loop (checked under Spec).                    *)
(***************************************************************************)
Is4xx(ev) == ev.ev = "HTTPError" /\ ev.obj.code >= 400 /\ ev.obj.code <= 499
Is5xx(ev) == ev.ev = "HTTPError" /\ ev.obj.code >= 500
IsFault(ev) == ev.ev = "fault"
IsSuccess(ev) == ev.ev = "response"

\* Attempts remain after the current one.
AttemptsRemain == attempt < client.max_retries

\* C1: for max_retries = N >= 0, a call all of whose attempts failed with a
\* 5xx status or a transport fault has made exactly N+1 attempts and has
\* ended with the error of the last attempt: the HTTP status error with that
\* status, or a ClientConnectionError carrying the fault's class name and
\* message.
C1_ExhaustsBudgetThenTerminalError ==
    (pc = "done" /\ client.max_retries >= 0 /\ (Is5xx(last) \/ IsFault(last)))
    => /\ opens = client.max_retries + 1
       /\ Is5xx(last) => outcome = HTTPStatusError(last.obj)
       /\ IsFault(last) =>
            /\ outcome.exc = "ClientConnectionError"
            /\ outcome.msg = <<last.obj.cls, " ", last.obj.msg>>

\* C2: a 4xx response is never retried: the attempt that receives it is the
\* last attempt of the call, whatever max_retries is and however many
\* retried failures came before it, and the HTTP status error with that
\* status is what the caller gets; when it is the first response, exactly
\* one attempt was made.
C2_ClientErrorNeverRetried ==
    /\ \A i \in 1..Len(retried) :
         retried[i].exc = "HTTPError" => retried[i].code >= 500
    /\ Is4xx(last) =>
         /\ pc = "done"
         /\ outcome = HTTPStatusError(last.obj)
         /\ opens = Len(retried) + 1
         /\ retried = <<>> => opens = 1

\* A 4xx arrived after an earlier retried failure, with attempts remaining.
C2_Witness ==
    /\ pc = "done" /\ Is4xx(last) /\ Len(retried) >= 1 /\ AttemptsRemain

\* The body of a response is malformed JSON declared as JSON.
MalformedJson(response) ==
    LET r == ReadResponse(response, TRUE)
    IN  /\ r.kind = "return"
        /\ Strip(r.value.s) # <<>>
        /\ response.ctype.present
        /\ IsJsonContentType(response.ctype)
        /\ JsonLoads(r.value.s).exc # ""

\* C3: a successful response is the last attempt of the call: after k-1
\* retried failures and a success on attempt k exactly k attempts were made,
\* the caller gets what the decoding of that response gives and nothing of
\* the earlier failures; a malformed JSON body raises the decode error at
\* once, also when attempts remain.
C3_SuccessEndsTheCall ==
    IsSuccess(last) =>
      /\ pc = "done"
      /\ opens = Len(retried) + 1
      /\ opens <= client.max_retries + 1
      /\ outcome = Finish(last.obj, args.decode_response)
      /\ (args.decode_response /\ last.obj.ctype = CtJson
            /\ last.obj.cenc = "identity" /\ last.obj.wire = <<123, 125>>)
         => outcome = Returned([t |-> "json",
                                j |-> [t |-> "object", members |-> {}]])
      /\ (args.decode_response /\ MalformedJson(last.obj))
         => outcome = Raised("JSONDecodeError")

\* A malformed JSON body arrived after a retried failure, attempts remaining.
C3_Witness ==
    /\ pc = "done" /\ IsSuccess(last) /\ Len(retried) >= 1 /\ AttemptsRemain
    /\ args.decode_response /\ MalformedJson(last.obj)

\* C9: one call makes at least 1 and at most max_retries+1 attempts and ends
\* with a result that comes from a successful response, an HTTP status
\* error, a ClientConnectionError or a decode error.
C9_AttemptBudgetAndOutcome ==
    pc = "done" =>
      /\ opens >= 1
      /\ opens <= client.max_retries + 1
      /\ outcome.kind \in {"return", "raise"}
      /\ outcome.kind = "return" => IsSuccess(last)
      /\ outcome.kind = "raise" =>
           outcome.exc \in {"HTTPError", "ClientConnectionError",
                            "JSONDecodeError", "UnicodeDecodeError"}

(***************************************************************************)
(* The endpoint helpers, lines 414-554.  Each builds its query from        *)
(* default_query(), its named parameters and its keyword arguments, and    *)
(* calls send_request.                                                     *)
(***************************************************************************)
TitleIds == {"1"}
LibraryKeys == {"lapl"}

\* **kwargs of the helpers that take them.
Kwargs ==
    {EmptyDict,
     ("x-client-id" :> PyStr("other")),
     ("x-client-id" :> PyList(<<>>)),
     ("perPage" :> PyInt(3))}

\* params = self.default_query(...); params.update(...); send_request(...)
Helper(name, endpoint, paging, specific) ==
    SendRequest(name, specific,
                DefaultArgs(endpoint,
                            PyDict(Update(default_query(paging), specific))))

media ==
    /\ pc = "idle"
    /\ \E title_id \in TitleIds, kwargs \in Kwargs :
           Helper("media", <<"media/", title_id>>, FALSE, kwargs)

media_bulk ==
    /\ pc = "idle"
    /\ \E title_id \in TitleIds, kwargs \in Kwargs :
           Helper("media_bulk", <<"media/bulk">>, FALSE,
                  Update(("titleIds" :> Join(",", <<title_id, "2">>)), kwargs))

libraries ==
    /\ pc = "idle"
    /\ \E website_ids \in {<<>>, <<"5">>}, kwargs \in Kwargs :
           Helper("libraries", <<"libraries/">>, TRUE,
                  Update(IF website_ids # <<>>
                           THEN ("websiteIds" :> Join(",", website_ids))
                           ELSE EmptyDict,
                         kwargs))

library_media ==
    /\ pc = "idle"
    /\ \E library_key \in LibraryKeys, title_id \in TitleIds, kwargs \in Kwargs :
           Helper("library_media",
                  <<"libraries/", library_key, "/media/", title_id>>, FALSE,
                  Update(("titleIds" :> PyStr(title_id)), kwargs))

media_search ==
    /\ pc = "idle"
    /\ \E library_key \in LibraryKeys, kwargs \in Kwargs :
           Helper("media_search", <<"media/search/">>, FALSE,
                  Update(("libraryKey" :> PyList(<<PyStr(library_key),
                                                   PyStr("nypl")>>)) @@
                         ("query" :> PyStr("dune")),
                         kwargs))

library_medias ==
    /\ pc = "idle"
    /\ \E library_key \in LibraryKeys,
          query \in { DefaultSearchParams,
                      [DefaultSearchParams EXCEPT !.query = <<"a">>],
                      [DefaultSearchParams EXCEPT !.title = <<" ">>] } :
           Helper("library_medias", <<"libraries/", library_key, "/media/">>,
                  FALSE, to_dict(query))

library_media_availability ==
    /\ pc = "idle"
    /\ \E library_key \in LibraryKeys, title_id \in TitleIds :
           Helper("library_media_availability",
                  <<"libraries/", library_key, "/media/", title_id,
                    "/availability">>,
                  FALSE, EmptyDict)

library_media_availability_bulk ==
    /\ pc = "idle"
    /\ \E library_key \in LibraryKeys, title_id \in TitleIds :
           SendRequest("library_media_availability_bulk", EmptyDict,
                       [DefaultArgs(<<"libraries/", library_key,
                                      "/media/availability">>,
                                    PyDict(default_query(FALSE)))
                          EXCEPT !.params =
                                   PyDict("ids" :> PyList(<<PyStr(title_id)>>)),
                                 !.is_form = FALSE])

HelperNames ==
    {"media", "media_bulk", "libraries", "library_media", "media_search",
     "library_medias", "library_media_availability",
     "library_media_availability_bulk"}

(***************************************************************************)
(* SpecRequests: every public operation that issues a request, with the    *)
(* arguments that decide how the request is built.                         *)
(***************************************************************************)
InitialCallerHeaders == ("Accept" :> "*/*")

InitRequests ==
    /\ InitClient({0, 1})
    /\ search = NoSearch
    /\ avail = NoAvail

NextRequests ==
    \/ Call(BuildArgs)
    \/ media
    \/ media_bulk
    \/ libraries
    \/ library_media
    \/ media_search
    \/ library_medias
    \/ library_media_availability
    \/ library_media_availability_bulk
    \/ AttemptSuccess(OneResponse)
    \/ AttemptHTTPError(SomeErrors)
    \/ AttemptFault(SomeFaults)
    \/ CallerResumes

SpecRequests == InitRequests /\ [][NextRequests]_vars

\* The pairs of the request's query string whose key is x-client-id.
ClientIdPairs == { pr \in req.url.qs : pr[1] = "x-client-id" }

\* C4 as stated: every request sent carries the x-client-id parameter.
C4_EveryRequestCarriesClientId ==
    pc # "idle" => ClientIdPairs # {}

\* C4 as amended: a request issued by an endpoint helper has the query made
\* of x-client-id=dewey merged with the call-specific parameters, the
\* call-specific values winning: every call-specific parameter is sent, and
\* x-client-id is sent as dewey unless the call overrides that key, and then
\* as the overriding value or values.  send_request called directly adds
\* nothing: its request carries x-client-id exactly when the query argument
\* does.
C4_HelpersMergeClientId ==
    pc # "idle" =>
      IF op.name \in HelperNames
        THEN /\ urlencode(op.specific) \subseteq req.url.qs
             /\ IF "x-client-id" \in DOMAIN op.specific
                  THEN ClientIdPairs =
                         urlencode([k \in {"x-client-id"} |-> op.specific[k]])
                  ELSE ClientIdPairs = {<<"x-client-id", CLIENT_ID>>}
        ELSE ClientIdPairs # {} <=>
               /\ Truthy(args.query)
               /\ "x-client-id" \in DOMAIN args.query.d

\* A helper was called with a keyword argument that collides with
\* x-client-id, and the request carries the caller's value.
C4_Witness ==
    /\ pc = "loop" /\ op.name = "media"
    /\ ClientIdPairs = {<<"x-client-id", "other">>}

\* C5: without a method override the request is POST exactly when it carries
\* a body payload together with the Content-Type chosen by is_form, and GET
\* exactly when it carries no payload and no Content-Type was added.
C5_PostIffPayload ==
    (pc # "idle" /\ args.method = None /\ args.headers = "None") =>
      /\ req.method = "POST" <=>
           /\ req.data # None
           /\ "Content-type" \in DOMAIN req.headers
           /\ req.headers["Content-type"] = ContentTypeFor(args.is_form)
      /\ req.method = "GET" <=>
           /\ req.data = None
           /\ "Content-type" \notin DOMAIN req.headers

\* C10: a call changes neither the client's configuration nor the header
\* mapping the caller passed in, so the headers of a request are those of
\* the call's own arguments: a request without body built from the caller's
\* mapping has no Content-Type.
C10_CallLeavesCallerStateAlone ==
    /\ client \in { NewClient(n) : n \in {0, 1} }
    /\ callerHeaders = InitialCallerHeaders
    /\ (pc # "idle" /\ ~HasPayload(args.params))
         => "Content-type" \notin DOMAIN req.headers

(***************************************************************************)
(* SpecDecode: every body, content type and content encoding of a          *)
(* successful response.                                                    *)
(***************************************************************************)
InitDecode ==
    /\ InitClient({0, 1})
    /\ search = NoSearch
    /\ avail = NoAvail

NextDecode ==
    \/ Call(PlainArgs)
    \/ AttemptSuccess(AllResponses)
    \/ AttemptHTTPError(SomeErrors)
    \/ AttemptFault(SomeFaults)
    \/ CallerResumes

SpecDecode == InitDecode /\ [][NextDecode]_vars

\* C6: in decoding mode the result for a successful response whose body is
\* readable text is: the empty mapping for an empty or whitespace-only body
\* whatever content type is declared; otherwise the parsed JSON structure
\* for a content type beginning with application/json; otherwise, for any
\* other content type or none, the decoded text, and no error is raised.
C6_ResultFromBodyAndContentType ==
    (pc = "done" /\ IsSuccess(last) /\ args.decode_response
       /\ ReadResponse(last.obj, TRUE).kind = "return") =>
      LET text == ReadResponse(last.obj, TRUE).value.s
          ctype == last.obj.ctype
      IN  IF Strip(text) = <<>>
            THEN outcome = Returned([t |-> "dict", d |-> EmptyDict])
          ELSE IF ctype.present /\ StartsWith(ctype.v, "application/json")
            THEN JsonLoads(text).exc = ""
                   => outcome = Returned([t |-> "json",
                                          j |-> JsonLoads(text).j])
          ELSE outcome = Returned([t |-> "str", s |-> text])

(***************************************************************************)
(* SpecSearch: LibraryMediaSearchParams objects and what is_empty and      *)
(* to_dict compute for them.                                               *)
(***************************************************************************)
SearchTexts == SeqsUpTo({" ", "a"}, MaxStrLen)

SearchParamsObjects ==
    { [DefaultSearchParams EXCEPT !.query = q, !.title = ti, !.creator = c,
                                  !.identifier = i,
                                  !.show_only_available = av,
                                  !.media_type = mt]
        : q \in SearchTexts, ti \in SearchTexts, c \in {<<>>, <<" ", "a">>},
          i \in {<<>>, <<" ">>}, av \in BOOLEAN, mt \in {"", "ebook"} }

InitSearch ==
    /\ InitClient({0})
    /\ search \in { [t |-> "params", self |-> p, computed |-> FALSE]
                      : p \in SearchParamsObjects }
    /\ avail = NoAvail

\* The caller asks is_empty() and to_dict() of the object.
ComputeSearch ==
    /\ search.t = "params"
    /\ ~search.computed
    /\ search' = [t |-> "params", self |-> search.self, computed |-> TRUE,
                  is_empty |-> is_empty(search.self),
                  result |-> to_dict(search.self)]
    /\ UNCHANGED <<sendVars, avail>>

NextSearch == ComputeSearch

SpecSearch == InitSearch /\ [][NextSearch]_vars

\* C7: each of query, title, creator and identifier is a key of the output of
\* to_dict if and only if its trimmed value is non-empty, and the value is
\* the trimmed string; when is_empty() is true the output has none of the
\* four keys.
C7_TextFieldsEmittedIffNonBlank ==
    (search.t = "params" /\ search.computed) =>
      /\ \A f \in TextFields :
           /\ f \in DOMAIN search.result <=> Strip(search.self[f]) # <<>>
           /\ f \in DOMAIN search.result
                => search.result[f] = PyChars(Strip(search.self[f]))
      /\ search.is_empty => DOMAIN search.result \cap TextFields = {}

(***************************************************************************)
(* sort_availabilities, lines 476-494.  An availability record is a        *)
(* function from some of the five keys to values.                          *)
(***************************************************************************)
SortKeys ==
    << [key |-> "isAvailable", default |-> 0, negate |-> FALSE],
       [key |-> "luckyDayAvailableCopies", default |-> 0, negate |-> FALSE],
       [key |-> "estimatedWaitDays", default |-> 9999, negate |-> TRUE],
       [key |-> "holdsRatio", default |-> 9999, negate |-> TRUE],
       [key |-> "ownedCopies", default |-> 0, negate |-> FALSE] >>

\* A Python bool compares as the integer 0 or 1 (False is the default of
\* isAvailable); the other values are numbers.
AsNumber(key, v) == IF key = "isAvailable" THEN (IF v THEN 1 ELSE 0) ELSE v

\* a.get(key, default)
GetOrDefault(rec, k) ==
    IF k.key \in DOMAIN rec THEN AsNumber(k.key, rec[k.key]) ELSE k.default

\* Faulty variant: fn is not applied to the ascending keys.
SortValueNotNegated(rec, k) == GetOrDefault(rec, k)

\* a.get(key, default), then fn when given.
SortValue(rec, k) ==
    IF k.negate THEN (-1) * GetOrDefault(rec, k) ELSE GetOrDefault(rec, k)

\* Lines 490-493: the decision at one key.
CompareValues(value_a, value_b) ==
    IF value_a > value_b THEN 1
    ELSE IF value_a < value_b THEN -1
    ELSE 0

RECURSIVE CompareFrom(_, _, _)
CompareFrom(a, b, i) ==
    IF i > Len(SortKeys) THEN 0
    ELSE LET c == CompareValues(SortValue(a, SortKeys[i]),
                                SortValue(b, SortKeys[i]))
         IN  IF c # 0 THEN c ELSE CompareFrom(a, b, i + 1)

sort_availabilities(a, b) == CompareFrom(a, b, 1)

(***************************************************************************)
(* SpecSort: pairs of availability records and the comparator's results.   *)
(***************************************************************************)
AvailabilityKeys ==
    {"isAvailable", "luckyDayAvailableCopies", "estimatedWaitDays",
     "holdsRatio", "ownedCopies"}

FullRecords ==
    [isAvailable : BOOLEAN, luckyDayAvailableCopies : {0, 1},
     estimatedWaitDays : {0, 7}, holdsRatio : {2}, ownedCopies : {1, 100}]

\* Records with any subset of the keys.
AvailabilityRecords ==
    { [k \in K |-> r[k]] : r \in FullRecords, K \in SUBSET AvailabilityKeys }

InitSort ==
    /\ InitClient({0})
    /\ search = NoSearch
    /\ avail \in { [t |-> "pair", a |-> a, b |-> b, compared |-> FALSE]
                     : a \in AvailabilityRecords, b \in AvailabilityRecords }

\* The caller compares the two records, in both orders.
Compare ==
    /\ avail.t = "pair"
    /\ ~avail.compared
    /\ avail' = [t |-> "pair", a |-> avail.a, b |-> avail.b,
                 compared |-> TRUE,
                 ab |-> sort_availabilities(avail.a, avail.b),
                 ba |-> sort_availabilities(avail.b, avail.a)]
    /\ UNCHANGED <<sendVars, search>>

NextSort == Compare

SpecSort == InitSort /\ [][NextSort]_vars

\* The order the claim states: larger is better for these keys, smaller is
\* better for estimatedWaitDays and holdsRatio.
LargerIsBetter == {"isAvailable", "luckyDayAvailableCopies", "ownedCopies"}

KeysEqual(a, b, i) == GetOrDefault(a, SortKeys[i]) = GetOrDefault(b, SortKeys[i])

\* a is the better record on the first key where a and b differ.
IsBetter(a, b) ==
    \E i \in 1..Len(SortKeys) :
        /\ \A j \in 1..(i - 1) : KeysEqual(a, b, j)
        /\ IF SortKeys[i].key \in LargerIsBetter
             THEN GetOrDefault(a, SortKeys[i]) > GetOrDefault(b, SortKeys[i])
             ELSE GetOrDefault(a, SortKeys[i]) < GetOrDefault(b, SortKeys[i])

AllKeysEqual(a, b) == \A i \in 1..Len(SortKeys) : KeysEqual(a, b, i)

\* C8 as stated: the result is negative when a is the better record, 0 only
\* when all five keys are equal, and cmp(a,b) = -cmp(b,a).
C8_BetterComparesNegative ==
    (avail.t = "pair" /\ avail.compared) =>
      /\ IsBetter(avail.a, avail.b) => avail.ab < 0
      /\ avail.ab = 0 <=> AllKeysEqual(avail.a, avail.b)
      /\ avail.ab = (-1) * avail.ba

\* C8 as amended: the result is 1 when a is the better record on the first
\* key where the two differ and -1 when b is, 0 only when all five keys are
\* equal (missing keys defaulted), and cmp(a,b) = -cmp(b,a).
C8_BetterComparesPositive ==
    (avail.t = "pair" /\ avail.compared) =>
      /\ IsBetter(avail.a, avail.b) => avail.ab = 1
      /\ IsBetter(avail.b, avail.a) => avail.ab = -1
      /\ avail.ab = 0 <=> AllKeysEqual(avail.a, avail.b)
      /\ avail.ab = (-1) * avail.ba

\* An available record owning 1 copy was compared with an unavailable one
\* owning 100.
C8_Witness ==
    /\ avail.t = "pair" /\ avail.compared
    /\ avail.a = ("isAvailable" :> TRUE) @@ ("ownedCopies" :> 1)
    /\ avail.b = ("isAvailable" :> FALSE) @@ ("ownedCopies" :> 100)
    /\ avail.ab = 1

====
